---------------------------- MODULE Spec2Model ----------------------------
(***************************************************************************)
(* Model of the turn-adjudication engine (game/Commands mixin) and of the  *)
(* two tile containers Pot (exchange container) and Word (rack container). *)
(*                                                                         *)
(* Handlers are written as operators from a game value to a result         *)
(*   [g |-> game after the call, notes |-> notifications sent,             *)
(*    err |-> "none" or the kind of error the call ended with],            *)
(* so that a handler can call another (challenge -> takeBack,              *)
(* challenge -> confirmGameOver) exactly as the source does.  An error     *)
(* result carries the game as it was left when the error was raised.       *)
(***************************************************************************)
EXTENDS Integers, Sequences, FiniteSets, TLC

\* ------------------------------------------------------------------ bounds
NumPlayers == 3
RackSize == 2
BagSize == 2
BoardSize == 3
MaxCommands == 2
PenaltyPoints == 5
MoveScore == 4
TimePenalty == 5
TimeAllowed == 60

Players == 1..NumPlayers
NoKey == 0

\* ------------------------------------------------------------------- tiles
\* A Tile: letter, point value, isBlank.  An unassigned blank has letter " ".
NoTile == [letter |-> "-", score |-> 0, isBlank |-> FALSE]
TileA == [letter |-> "A", score |-> 1, isBlank |-> FALSE]
TileB == [letter |-> "B", score |-> 3, isBlank |-> FALSE]
Blank == [letter |-> " ", score |-> 0, isBlank |-> TRUE]

\* Tile.reset, called by Square.unplaceTile: a blank loses its letter.
Reset(tile) ==
  IF tile.isBlank THEN [tile EXCEPT !.letter = " "] ELSE tile

\* Surface.tiles(): the tiles of the occupied squares, in square order.
Tiles(c) == SelectSeq(c, LAMBDA sq : sq # NoTile)

\* Surface.isEmpty()
IsEmpty(c) == \A i \in 1..Len(c) : c[i] = NoTile

RECURSIVE SumScores(_)
SumScores(ts) ==
  IF ts = << >> THEN 0 ELSE Head(ts).score + SumScores(Tail(ts))

\* Surface.score() of a rack: total point value of the tiles held.
RackScore(c) == SumScores(Tiles(c))

\* Number of tiles held by a container.
Count(c) == Len(Tiles(c))

\* Index of the first empty square, 0 when the container is full
\* (Surface.forEachEmptySquare stops at the first callback returning true).
FirstEmpty(c) ==
  IF \E i \in 1..Len(c) : c[i] = NoTile
  THEN CHOOSE i \in 1..Len(c) :
         c[i] = NoTile /\ \A j \in 1..(i - 1) : c[j] # NoTile
  ELSE 0

\* ------------------------------------------------------- Pot (exchange)
\* Pot.addTile: place the tile on the first empty square; when there is
\* none the tile is not placed and undefined is returned (ok = FALSE).
PotAddTile(c, tile) ==
  LET i == FirstEmpty(c) IN
  IF i = 0 THEN [c |-> c, ok |-> FALSE]
  ELSE [c |-> [c EXCEPT ![i] = tile], ok |-> TRUE]

\* Pot.addTiles: addTile per element; result c, and how many were not placed.
RECURSIVE PotAddTiles(_, _)
PotAddTiles(c, ts) ==
  IF ts = << >> THEN [c |-> c, dropped |-> 0]
  ELSE LET r == PotAddTile(c, Head(ts))
           rest == PotAddTiles(r.c, Tail(ts))
       IN [c |-> rest.c,
           dropped |-> rest.dropped + (IF r.ok THEN 0 ELSE 1)]

\* Pot.findSquare: every tiled square is visited and each exact letter match
\* overwrites the result, so the last match wins; 0 when none.
PotFindSquare(c, letter) ==
  LET hits == {i \in 1..Len(c) : c[i] # NoTile /\ c[i].letter = letter} IN
  IF hits = {} THEN 0 ELSE CHOOSE i \in hits : \A j \in hits : j <= i

\* Pot.removeTile: [c, tile, ok]; ok = FALSE is the thrown "Cannot find".
PotRemoveTile(c, letter) ==
  LET i == PotFindSquare(c, letter) IN
  IF i = 0 THEN [c |-> c, tile |-> NoTile, ok |-> FALSE]
  ELSE [c |-> [c EXCEPT ![i] = NoTile], tile |-> Reset(c[i]), ok |-> TRUE]

\* Mutant of PotRemoveTiles: all or nothing, a miss puts back what was removed.
RECURSIVE PotRemoveTilesAtomic(_, _)
PotRemoveTilesAtomic(c, letters) ==
  IF letters = << >> THEN [c |-> c, tiles |-> << >>, ok |-> TRUE]
  ELSE LET r == PotRemoveTile(c, Head(letters)) IN
       IF ~r.ok THEN [c |-> c, tiles |-> << >>, ok |-> FALSE]
       ELSE LET rest == PotRemoveTilesAtomic(r.c, Tail(letters)) IN
            [c |-> IF rest.ok THEN rest.c ELSE c,
             tiles |-> <<r.tile>> \o rest.tiles, ok |-> rest.ok]

\* Pot.removeTiles: one removeTile per requested tile, in order; the first
\* miss throws and what was removed before it stays removed.
RECURSIVE PotRemoveTiles(_, _)
PotRemoveTiles(c, letters) ==
  IF letters = << >> THEN [c |-> c, tiles |-> << >>, ok |-> TRUE]
  ELSE LET r == PotRemoveTile(c, Head(letters)) IN
       IF ~r.ok THEN [c |-> c, tiles |-> << >>, ok |-> FALSE]
       ELSE LET rest == PotRemoveTiles(r.c, Tail(letters)) IN
            [c |-> rest.c, tiles |-> <<r.tile>> \o rest.tiles, ok |-> rest.ok]

\* Pot.shuffle: the tiles are unplaced in square order, permuted (perm is the
\* outcome of the Fisher-Yates draws) and added back with addTiles.
PotShuffle(c, perm) ==
  LET ts == Tiles(c)
      shuffled == [i \in 1..Len(ts) |-> Reset(ts[perm[i]])]
  IN PotAddTiles([i \in 1..Len(c) |-> NoTile], shuffled).c

\* ----------------------------------------------------------- Word (rack)
WordAddTile(c, tile) ==
  LET i == FirstEmpty(c) IN
  IF i = 0 THEN [c |-> c, ok |-> FALSE]
  ELSE [c |-> [c EXCEPT ![i] = tile], ok |-> TRUE]

RECURSIVE WordAddTiles(_, _)
WordAddTiles(c, ts) ==
  IF ts = << >> THEN [c |-> c, dropped |-> 0]
  ELSE LET r == WordAddTile(c, Head(ts))
           rest == WordAddTiles(r.c, Tail(ts))
       IN [c |-> rest.c,
           dropped |-> rest.dropped + (IF r.ok THEN 0 ELSE 1)]

\* Word.findSquare: visits every tiled square in order with
\*   if ((!square && sq.tile.isBlank) || sq.tile.letter === letter) square = sq
\* found(i) is the value of `square` after the first i squares.
RECURSIVE WordFound(_, _, _)
WordFound(c, letter, i) ==
  IF i = 0 THEN 0
  ELSE LET prev == WordFound(c, letter, i - 1) IN
       IF c[i] # NoTile
          /\ ((prev = 0 /\ c[i].isBlank) \/ c[i].letter = letter)
       THEN i ELSE prev

\* Mutant of WordFindSquare: a blank is taken before a tile with the letter.
WordFindSquareBlankFirst(c, letter) ==
  LET blanks == {i \in 1..Len(c) : c[i] # NoTile /\ c[i].isBlank} IN
  IF blanks # {} THEN CHOOSE i \in blanks : \A j \in blanks : i <= j
  ELSE WordFound(c, letter, Len(c))

WordFindSquare(c, letter) == WordFound(c, letter, Len(c))

\* Word.removeTile: as Pot.removeTile, and a blank tile taken is given the
\* requested letter.
WordRemoveTile(c, letter) ==
  LET i == WordFindSquare(c, letter) IN
  IF i = 0 THEN [c |-> c, tile |-> NoTile, ok |-> FALSE]
  ELSE LET t == Reset(c[i]) IN
       [c |-> [c EXCEPT ![i] = NoTile],
        tile |-> IF t.isBlank THEN [t EXCEPT !.letter = letter] ELSE t,
        ok |-> TRUE]

RECURSIVE WordRemoveTiles(_, _)
WordRemoveTiles(c, letters) ==
  IF letters = << >> THEN [c |-> c, tiles |-> << >>, ok |-> TRUE]
  ELSE LET r == WordRemoveTile(c, Head(letters)) IN
       IF ~r.ok THEN [c |-> c, tiles |-> << >>, ok |-> FALSE]
       ELSE LET rest == WordRemoveTiles(r.c, Tail(letters)) IN
            [c |-> rest.c, tiles |-> <<r.tile>> \o rest.tiles, ok |-> rest.ok]


\* ------------------------------------------------------------------- state
VARIABLES
  board,        \* the board: BoardSize squares, each a tile or NoTile
  racks,        \* racks[p]: player p's rack (a Word)
  bag,          \* the letter bag (a Pot)
  score,        \* score[p]
  turns,        \* the turn ledger
  whosTurnKey,  \* key of the player due to move
  state,        \* Game.State
  missNextTurn, \* missNextTurn[p]
  pausedBy,     \* name of the pausing player, NotPaused when undefined
  clockRunning, \* startTheClock / stopTheClock
  clock,        \* clock[p]: seconds left to player p, negative when overrun
  started,      \* the last startTurn call: player, timeout, ledger length
  nextGameKey,  \* key of the successor game, NoKey when there is none
  succ,         \* the successor games created, by key
  allowed,      \* the words added to the dictionary's whitelist
  cfg,          \* the game's configuration, fixed at creation
  last,         \* the command that ran last, its inputs and how it ended
  notes,        \* the notifications the last command sent
  ncmd,         \* number of commands run so far
  tilePool,     \* number of tiles the game was created with
  held,         \* tiles a caller took out of a container and still holds
  prePlay,      \* board, racks and scores before the play that ran last
  pending       \* the challenges suspended on promiseDictionary()

vars == <<board, racks, bag, score, turns, whosTurnKey, state, missNextTurn,
          pausedBy, clockRunning, clock, started, nextGameKey, succ, allowed,
          cfg, last, notes, ncmd, tilePool, held, prePlay, pending>>

\* The game as one value, as the handlers see `this`.
Game ==
  [board |-> board, racks |-> racks, bag |-> bag, score |-> score,
   turns |-> turns, whosTurnKey |-> whosTurnKey, state |-> state,
   missNextTurn |-> missNextTurn, pausedBy |-> pausedBy,
   clockRunning |-> clockRunning, clock |-> clock, started |-> started,
   nextGameKey |-> nextGameKey, succ |-> succ, allowed |-> allowed]

Res(g, n, e) == [g |-> g, notes |-> n, err |-> e]

\* ------------------------------------------------------------ collaborators
\* The dictionary collaborator: its word list, and hasWord, which also
\* answers for the words added to the whitelist.
Dict == {"CAT"}
HasWord(w) == w \in Dict \cup allowed

\* An undefined time (a timeout argument not given, a turn not timed).
NoTime == 0 - 1

\* A turn record; every record carries every field, unused ones at default.
NoTurn ==
  [type |-> "NONE", playerKey |-> NoKey, score |-> 0, placements |-> << >>,
   replacements |-> << >>, words |-> << >>, challengerKey |-> NoKey,
   nextToGoKey |-> NoKey, penalty |-> "", endState |-> "", deltas |-> << >>,
   remainingTime |-> NoTime]

\* Game.lastTurn(): the ledger's tail, NoTurn (undefined) when it is empty.
LastTurn(g) == IF g.turns = << >> THEN NoTurn ELSE g.turns[Len(g.turns)]

\* Game.nextPlayer(): the player after the one due to move, in roster order.
NextPlayer(g) == (g.whosTurnKey % NumPlayers) + 1

\* Game.finishTurn(player, turn): stamp the acting player's key on the record
\* and append it to the ledger.
FinishTurn(g, player, turn) ==
  [g EXCEPT !.turns = Append(@, [turn EXCEPT !.playerKey = player])]

\* Game.startTurn(player, timeout): the turn pointer moves to player; under a
\* per-turn timer the player's clock is set to the timeout given, or to the
\* time allowed for a turn when none is given.
StartTurn(g, player, timeout) ==
  [g EXCEPT !.whosTurnKey = player,
            !.clock[player] =
               IF cfg.timerType # "TURN" THEN @
               ELSE IF timeout = NoTime THEN cfg.timeAllowed ELSE timeout,
            !.started = [player |-> player, timeout |-> timeout,
                         after |-> Len(g.turns)]]

\* Game.rackToBoard: for each placement take the tile from the player's rack
\* (Word.removeTile) and place it on the board square named.
RECURSIVE RackToBoard(_, _, _)
RackToBoard(g, placements, p) ==
  IF placements = << >> THEN Res(g, << >>, "none")
  ELSE LET pl == Head(placements)
           r == WordRemoveTile(g.racks[p], pl.letter)
       IN IF ~r.ok THEN Res(g, << >>, "NotFound")
          ELSE RackToBoard([g EXCEPT !.racks[p] = r.c,
                                     !.board[pl.col] = r.tile],
                           Tail(placements), p)

\* Game.boardToRack: for each placement unplace the tile of its board square
\* (Square.unplaceTile resets a blank) and add it to the player's rack.
RECURSIVE BoardToRack(_, _, _)
BoardToRack(g, placements, p) ==
  IF placements = << >> THEN Res(g, << >>, "none")
  ELSE LET pl == Head(placements)
           tile == g.board[pl.col]
       IN IF tile = NoTile THEN Res(g, << >>, "assert")
          ELSE BoardToRack(
                 [g EXCEPT !.board[pl.col] = NoTile,
                           !.racks[p] = WordAddTile(@, Reset(tile)).c],
                 Tail(placements), p)

\* Game.rackToBag: for each tile take a matching tile from the player's rack
\* (Word.removeTile) and return it to the bag (Pot.addTile).
RECURSIVE RackToBag(_, _, _)
RackToBag(g, tiles, p) ==
  IF tiles = << >> THEN Res(g, << >>, "none")
  ELSE LET r == WordRemoveTile(g.racks[p], Head(tiles).letter) IN
       IF ~r.ok THEN Res(g, << >>, "NotFound")
       ELSE RackToBag([g EXCEPT !.racks[p] = r.c,
                                !.bag = PotAddTile(@, r.tile).c],
                      Tail(tiles), p)


\* Player.name; pausedBy holds the name of the player who paused.  Nothing
\* in the engine asks a name to be non-empty: the second player has none.
Name(p) == <<"ann", "", "cat", "dan">>[p]

\* pausedBy when it is undefined.
NotPaused == "<undefined>"

\* The truth value JavaScript gives a pausedBy or a nextGameKey in a
\* condition: undefined and the empty string are false.
Truthy(x) == x \notin {NotPaused, ""}

\* ---------------------------------------------------------------- commands
\* Mutant of BadWords: only the first word of the move is looked up.
BadWordsFirstOnly(words) ==
  IF words # << >> /\ ~HasWord(Head(words)) THEN <<Head(words)>> ELSE << >>

\* play: the words of the move the dictionary does not hold (badWords).
BadWords(words) == SelectSeq(words, LAMBDA w : ~HasWord(w))

\* play: whether the play is validated before anything is modified.
Validates == cfg.dictionary /\ ~cfg.isRobot /\ cfg.wordCheck = "REJECT"

\* play: what follows the move of the tiles and the score update.  The turn
\* record is built from `prepasses` and the continuation names `nextPlayer`;
\* play declares neither, so evaluating the record raises a ReferenceError
\* before finishTurn is called.
PlayFinish(g, p, move) == Res(g, << >>, "ReferenceError")

\* play(player, move).  dictUp: whether promiseDictionary() resolves.
Play(g, p, move, dictUp) ==
  IF Validates /\ ~dictUp THEN Res(g, << >>, "DictionaryError")
  ELSE IF Validates /\ BadWords(move.words) # << >>
  THEN Res(g, <<[type |-> "REJECT", to |-> p,
                 words |-> BadWords(move.words)]>>, "none")
  ELSE LET r == RackToBoard(g, move.placements, p) IN
       IF r.err # "none" THEN r
       ELSE PlayFinish([r.g EXCEPT !.score[p] = @ + move.score], p, move)

\* this.save() and newGame.save(): the entry the result's notes carry for a
\* save; `to` is NoKey for this game, or the key of the successor saved.
Saved(key) == [type |-> "SAVE", to |-> key, words |-> << >>]

\* pause(player)
Pause(g, p) ==
  IF Truthy(g.pausedBy) THEN Res(g, << >>, "none")
  ELSE Res([g EXCEPT !.clockRunning = FALSE, !.pausedBy = Name(p)],
           <<[type |-> "PAUSE", to |-> NoKey, words |-> << >>], Saved(NoKey)>>,
           "none")

\* unpause(player)
Unpause(g, p) ==
  IF ~Truthy(g.pausedBy) THEN Res(g, << >>, "none")
  ELSE Res([g EXCEPT !.pausedBy = NotPaused, !.clockRunning = TRUE],
           <<[type |-> "UNPAUSE", to |-> NoKey, words |-> << >>],
             Saved(NoKey)>>,
           "none")

\* confirmGameOver: Math.round((player.clock * timePenalty) / 60); Math.round
\* rounds a half towards plus infinity.
TimePoints(c) == (2 * c * cfg.timePenalty + 60) \div 120

\* Mutant of Settle: a second empty rack is accepted, the last player found
\* with an empty rack is the one remembered.
RECURSIVE SettleLastEmptyWins(_, _, _)
SettleLastEmptyWins(g, i, acc) ==
  IF i > NumPlayers THEN acc
  ELSE
    LET empty == IsEmpty(g.racks[i])
        rackScore == RackScore(g.racks[i])
    IN SettleLastEmptyWins(g, i + 1,
         [score |-> IF empty THEN acc.score
                    ELSE [acc.score EXCEPT ![i] = @ - rackScore],
          deltas |-> Append(acc.deltas,
                            [tiles |-> IF empty THEN 0 ELSE 0 - rackScore,
                             time |-> 0]),
          noTiles |-> IF empty THEN i ELSE acc.noTiles,
          pot |-> IF empty THEN acc.pot ELSE acc.pot + rackScore,
          err |-> "none"])

\* confirmGameOver: the players.forEach loop, players i..NumPlayers still to
\* visit.  acc = [score, deltas, noTiles, pot, err].
RECURSIVE Settle(_, _, _)
Settle(g, i, acc) ==
  IF i > NumPlayers \/ acc.err # "none" THEN acc
  ELSE
    LET empty == IsEmpty(g.racks[i])
        rackScore == RackScore(g.racks[i])
        timed == cfg.timerType = "GAME" /\ g.clock[i] < 0
                 /\ TimePoints(g.clock[i]) < 0
        delta == [tiles |-> IF empty THEN 0 ELSE 0 - rackScore,
                  time |-> IF timed THEN TimePoints(g.clock[i]) ELSE 0]
    IN IF empty /\ acc.noTiles # NoKey
       THEN [acc EXCEPT !.err = "assert"]
       ELSE Settle(g, i + 1,
              [score |-> IF empty THEN acc.score
                         ELSE [acc.score EXCEPT ![i] = @ - rackScore],
               deltas |-> Append(acc.deltas, delta),
               noTiles |-> IF empty THEN i ELSE acc.noTiles,
               pot |-> IF empty THEN acc.pot ELSE acc.pot + rackScore,
               err |-> "none"])

\* Mutant of ConfirmGameOver: the command does not look at the state.
ConfirmGameOverAlways(g, p, endState) ==
  LET g1 == [g EXCEPT !.state = IF endState = "" THEN "GAME_OVER"
                                ELSE endState,
                      !.clockRunning = FALSE]
  IN Res(FinishTurn(g1, p, [NoTurn EXCEPT !.type = "GAME_ENDED",
                                          !.endState = endState]),
         << >>, "none")

\* Mutant of ConfirmGameOver: the forfeited points are not awarded to the
\* player with the empty rack.
ConfirmGameOverNoAward(g, p, endState) ==
  IF g.state # "PLAYING" THEN Res(g, << >>, "none")
  ELSE
    LET g1 == [g EXCEPT !.state = IF endState = "" THEN "GAME_OVER"
                                  ELSE endState,
                        !.clockRunning = FALSE]
        s == Settle(g1, 1, [score |-> g1.score, deltas |-> << >>,
                            noTiles |-> NoKey, pot |-> 0, err |-> "none"])
    IN IF s.err # "none" THEN Res([g1 EXCEPT !.score = s.score], << >>, s.err)
       ELSE Res(FinishTurn([g1 EXCEPT !.score = s.score], p,
                           [NoTurn EXCEPT !.type = "GAME_ENDED",
                                          !.endState = endState,
                                          !.deltas = s.deltas]),
                << >>, "none")

\* confirmGameOver(player, endState); endState "" is an undefined argument.
ConfirmGameOver(g, p, endState) ==
  IF g.state # "PLAYING" THEN Res(g, << >>, "none")
  ELSE
    LET g1 == [g EXCEPT !.state = IF endState = "" THEN "GAME_OVER"
                                  ELSE endState,
                        !.clockRunning = FALSE]
        s == Settle(g1, 1, [score |-> g1.score, deltas |-> << >>,
                            noTiles |-> NoKey, pot |-> 0, err |-> "none"])
    IN IF s.err # "none" THEN Res([g1 EXCEPT !.score = s.score], << >>, s.err)
       ELSE
         LET w == s.noTiles
             sc == IF w = NoKey THEN s.score
                   ELSE [s.score EXCEPT ![w] = @ + s.pot]
             ds == IF w = NoKey THEN s.deltas
                   ELSE [s.deltas EXCEPT ![w].tiles = s.pot]
         IN Res(FinishTurn([g1 EXCEPT !.score = sc], p,
                           [NoTurn EXCEPT !.type = "GAME_ENDED",
                                          !.endState = endState,
                                          !.deltas = ds]),
                << >>, "none")

\* Mutant of TakeBack: the tiles and the score are those of the caller, not of
\* the player who made the play.
TakeBackToCaller(g, p, type) ==
  LET previousMove == LastTurn(g) IN
  IF previousMove = NoTurn \/ previousMove.type # "PLAYED"
  THEN Res(g, << >>, "assert")
  ELSE
    LET r1 == RackToBag(g, previousMove.replacements, p)
        r2 == BoardToRack(r1.g, previousMove.placements, p)
        g3 == [r2.g EXCEPT !.score[p] = @ - previousMove.score]
        turn == [NoTurn EXCEPT
                   !.type = type,
                   !.nextToGoKey = IF type = "CHALLENGE_WON"
                                   THEN g.whosTurnKey ELSE p,
                   !.score = 0 - previousMove.score,
                   !.placements = previousMove.placements,
                   !.replacements = previousMove.replacements,
                   !.challengerKey = IF type = "CHALLENGE_WON"
                                     THEN p ELSE NoKey]
        g4 == FinishTurn(g3, previousMove.playerKey, turn)
    IN IF r1.err # "none" THEN r1
       ELSE IF r2.err # "none" THEN r2
       ELSE IF type = "TOOK_BACK"
       THEN Res(StartTurn(g4, p, previousMove.remainingTime), << >>, "none")
       ELSE Res(g4, << >>, "none")

\* Mutant of TakeBack: the turn of the player taking back is started without
\* the time left on the move taken back.
TakeBackFreshClock(g, p, type) ==
  LET previousMove == LastTurn(g) IN
  IF previousMove = NoTurn \/ previousMove.type # "PLAYED"
  THEN Res(g, << >>, "assert")
  ELSE
    LET prevPlayer == previousMove.playerKey
        r1 == RackToBag(g, previousMove.replacements, prevPlayer)
        r2 == BoardToRack(r1.g, previousMove.placements, prevPlayer)
        g3 == [r2.g EXCEPT !.score[prevPlayer] = @ - previousMove.score]
        turn == [NoTurn EXCEPT
                   !.type = type,
                   !.nextToGoKey = IF type = "CHALLENGE_WON"
                                   THEN g.whosTurnKey ELSE p,
                   !.score = 0 - previousMove.score,
                   !.placements = previousMove.placements,
                   !.replacements = previousMove.replacements,
                   !.challengerKey = IF type = "CHALLENGE_WON"
                                     THEN p ELSE NoKey]
        g4 == FinishTurn(g3, prevPlayer, turn)
    IN IF r1.err # "none" THEN r1
       ELSE IF r2.err # "none" THEN r2
       ELSE IF type = "TOOK_BACK"
       THEN Res(StartTurn(g4, p, NoTime), << >>, "none")
       ELSE Res(g4, << >>, "none")

\* takeBack(player, type)
TakeBack(g, p, type) ==
  LET previousMove == LastTurn(g) IN
  IF previousMove = NoTurn \/ previousMove.type # "PLAYED"
  THEN Res(g, << >>, "assert")
  ELSE
    LET prevPlayer == previousMove.playerKey
        r1 == RackToBag(g, previousMove.replacements, prevPlayer)
        r2 == BoardToRack(r1.g, previousMove.placements, prevPlayer)
        g3 == [r2.g EXCEPT !.score[prevPlayer] = @ - previousMove.score]
        turn == [NoTurn EXCEPT
                   !.type = type,
                   !.nextToGoKey = IF type = "CHALLENGE_WON"
                                   THEN g.whosTurnKey ELSE p,
                   !.score = 0 - previousMove.score,
                   !.placements = previousMove.placements,
                   !.replacements = previousMove.replacements,
                   !.challengerKey = IF type = "CHALLENGE_WON"
                                     THEN p ELSE NoKey]
        g4 == FinishTurn(g3, prevPlayer, turn)
    IN IF r1.err # "none" THEN r1
       ELSE IF r2.err # "none" THEN r2
       ELSE IF type = "TOOK_BACK"
       THEN Res(StartTurn(g4, p, previousMove.remainingTime), << >>, "none")
       ELSE Res(g4, << >>, "none")

\* Mutant of LostPoints: PER_WORD charges the flat amount of PER_TURN.
LostPointsFlat(previousMove) ==
  IF cfg.challengePenalty \in {"PER_TURN", "PER_WORD"}
  THEN 0 - PenaltyPoints ELSE 0

\* challenge: the points a failed challenge costs the challenger.
LostPoints(previousMove) ==
  CASE cfg.challengePenalty = "PER_TURN" -> 0 - PenaltyPoints
    [] cfg.challengePenalty = "PER_WORD" ->
         0 - PenaltyPoints * Len(previousMove.words)
    [] OTHER -> 0

\* Mutant of ChallengeMissTurn: the record is appended and the turn stays with
\* the challenger.
ChallengeMissTurnStays(g, challenger, challenged) ==
  Res(FinishTurn(g, challenged,
                 [NoTurn EXCEPT !.type = "CHALLENGE_LOST", !.penalty = "MISS",
                                !.challengerKey = challenger,
                                !.nextToGoKey = NextPlayer(g)]),
      << >>, "none")

\* challenge: the challenger holds the turn and the penalty is MISS, and the
\* challenged play was not the last of the game: the challenger's turn ends.
ChallengeMissTurn(g, challenger, challenged) ==
  LET nextPlayer == NextPlayer(g) IN
  Res(StartTurn(FinishTurn(g, challenged,
                           [NoTurn EXCEPT !.type = "CHALLENGE_LOST",
                                          !.penalty = "MISS",
                                          !.challengerKey = challenger,
                                          !.nextToGoKey = nextPlayer]),
                nextPlayer, NoTime),
      << >>, "none")

\* Mutant of ChallengePenalty: the turn is started for the next player, as in
\* the branch of the challenger who holds the turn.
ChallengePenaltyAdvances(g, challenger, challenged, previousMove) ==
  LET lostPoints == LostPoints(previousMove)
      g1 == [g EXCEPT
               !.missNextTurn[challenger] =
                  IF cfg.challengePenalty = "MISS" THEN TRUE ELSE @,
               !.score[challenger] = @ + lostPoints]
  IN Res(StartTurn(FinishTurn(g1, challenged,
                              [NoTurn EXCEPT !.type = "CHALLENGE_LOST",
                                             !.score = lostPoints,
                                             !.challengerKey = challenger,
                                             !.nextToGoKey = g.whosTurnKey]),
                   NextPlayer(g), NoTime),
         << >>, "none")

\* Mutant of ChallengePenalty: the challenger is tagged to miss a turn under
\* every penalty scheme.
ChallengePenaltyFlagsAlways(g, challenger, challenged, previousMove) ==
  LET lostPoints == LostPoints(previousMove)
      g1 == [g EXCEPT !.missNextTurn[challenger] = TRUE,
                      !.score[challenger] = @ + lostPoints]
  IN Res(FinishTurn(g1, challenged,
                    [NoTurn EXCEPT !.type = "CHALLENGE_LOST",
                                   !.score = lostPoints,
                                   !.challengerKey = challenger,
                                   !.nextToGoKey = g.whosTurnKey]),
         << >>, "none")

\* challenge: a points penalty, or a challenger who does not hold the turn.
ChallengePenalty(g, challenger, challenged, previousMove) ==
  LET lostPoints == LostPoints(previousMove)
      g1 == [g EXCEPT
               !.missNextTurn[challenger] =
                  IF cfg.challengePenalty = "MISS" THEN TRUE ELSE @,
               !.score[challenger] = @ + lostPoints]
  IN Res(FinishTurn(g1, challenged,
                    [NoTurn EXCEPT !.type = "CHALLENGE_LOST",
                                   !.score = lostPoints,
                                   !.challengerKey = challenger,
                                   !.nextToGoKey = g.whosTurnKey]),
         << >>, "none")

\* Mutant of ChallengeFailed: the challenged play being the game's last is
\* given no special treatment.
ChallengeFailedNoGameOver(g, challenger, challenged, previousMove) ==
  IF challenger = g.whosTurnKey /\ cfg.challengePenalty = "MISS"
  THEN ChallengeMissTurn(g, challenger, challenged)
  ELSE ChallengePenalty(g, challenger, challenged, previousMove)

\* challenge: the challenge failed (no word of the challenged play is bad).
ChallengeFailed(g, challenger, challenged, previousMove) ==
  IF challenger = g.whosTurnKey /\ cfg.challengePenalty = "MISS"
  THEN IF previousMove.replacements = << >> /\ IsEmpty(g.racks[challenged])
       THEN ConfirmGameOver(g, g.whosTurnKey, "FAILED_CHALLENGE")
       ELSE ChallengeMissTurn(g, challenger, challenged)
  ELSE ChallengePenalty(g, challenger, challenged, previousMove)

\* Mutant of Bad: the filter keeps the words the dictionary holds.
BadInverted(previousMove) ==
  SelectSeq(previousMove.words, LAMBDA w : HasWord(w))

\* challenge: the words of the challenged play the dictionary does not hold.
Bad(previousMove) == SelectSeq(previousMove.words, LAMBDA w : ~HasWord(w))

\* Mutant of Challenge: a player may challenge their own play.
ChallengeOwnPlay(g, challenger, challenged, dictUp) ==
  LET previousMove == LastTurn(g) IN
  IF g.turns = << >>
     \/ previousMove.type # "PLAYED" \/ challenged # previousMove.playerKey
  THEN Res(g, << >>, "assert")
  ELSE IF ~dictUp
  THEN LET tb == TakeBack(g, challenger, "CHALLENGE_WON") IN
       IF tb.err # "none" THEN tb
       ELSE IF previousMove.words # << >> THEN Res(tb.g, << >>, "TypeError")
       ELSE ChallengeFailed(tb.g, challenger, challenged, previousMove)
  ELSE IF Bad(previousMove) # << >>
  THEN TakeBack(g, challenger, "CHALLENGE_WON")
  ELSE ChallengeFailed(g, challenger, challenged, previousMove)

\* challenge(challenger, challenged).  dictUp: whether promiseDictionary()
\* resolves.  When it rejects, the catch handler takes the play back and its
\* result (the game, which has no hasWord) is what the then handler receives
\* as `dict`.
Challenge(g, challenger, challenged, dictUp) ==
  LET previousMove == LastTurn(g) IN
  IF challenger = challenged \/ g.turns = << >>
     \/ previousMove.type # "PLAYED" \/ challenged # previousMove.playerKey
  THEN Res(g, << >>, "assert")
  ELSE IF ~dictUp
  THEN LET tb == TakeBack(g, challenger, "CHALLENGE_WON") IN
       IF tb.err # "none" THEN tb
       ELSE IF previousMove.words # << >> THEN Res(tb.g, << >>, "TypeError")
       ELSE ChallengeFailed(tb.g, challenger, challenged, previousMove)
  ELSE IF Bad(previousMove) # << >>
  THEN TakeBack(g, challenger, "CHALLENGE_WON")
  ELSE ChallengeFailed(g, challenger, challenged, previousMove)

\* challenge, up to the call of promiseDictionary(): the assertions, and the
\* last turn read into previousMove (`at` is its place in the ledger, the
\* identity of the record the handler's closure keeps).
ChallengeRead(g, challenger, challenged) ==
  LET previousMove == LastTurn(g) IN
  [ok |-> ~(challenger = challenged \/ g.turns = << >>
            \/ previousMove.type # "PLAYED"
            \/ challenged # previousMove.playerKey),
   challenger |-> challenger, challenged |-> challenged,
   previousMove |-> previousMove, at |-> Len(g.turns)]

\* challenge, from the settling of promiseDictionary() on: the catch and then
\* handlers, run on the game as it is by then with the previousMove read
\* before.
ChallengeResume(g, challenger, challenged, previousMove, dictUp) ==
  IF ~dictUp
  THEN LET tb == TakeBack(g, challenger, "CHALLENGE_WON") IN
       IF tb.err # "none" THEN tb
       ELSE IF previousMove.words # << >> THEN Res(tb.g, << >>, "TypeError")
       ELSE ChallengeFailed(tb.g, challenger, challenged, previousMove)
  ELSE IF Bad(previousMove) # << >>
  THEN TakeBack(g, challenger, "CHALLENGE_WON")
  ELSE ChallengeFailed(g, challenger, challenged, previousMove)

\* anotherGame: the NEXT_GAME notification, naming the new game's key.
NextGame(key) == [type |-> "NEXT_GAME", to |-> key, words |-> << >>]

\* anotherGame: the successor as new this.constructor(this) and create()
\* leave it: made from this game, persisted once, no player added yet.
Created(g) ==
  [players |-> 0, state |-> g.state, turns |-> g.turns,
   whosTurnKey |-> g.whosTurnKey, saves |-> 1, savedPlayers |-> 0]

\* anotherGame: the successor after the roster is copied: the players added,
\* no turn inherited, state WAITING, no turn pointer.
WithRoster(new) ==
  [new EXCEPT !.players = NumPlayers, !.state = "WAITING", !.turns = << >>,
              !.whosTurnKey = NoKey]

\* Mutant of AnotherGame: a successor is created whether or not one exists.
AnotherGameAgain(g, failAt) ==
  LET key == Len(g.succ) + 1
      new == [WithRoster(Created(g)) EXCEPT !.saves = 2,
                                            !.savedPlayers = NumPlayers]
  IN Res([g EXCEPT !.succ = Append(@, new), !.nextGameKey = key],
         <<Saved(key), Saved(NoKey), Saved(key), NextGame(key)>>, "none")

\* anotherGame().  failAt: the step of the promise chain that rejects
\* ("none", "create": newGame.create(), "save": this.save(), "newSave":
\* newGame.save()); the steps chained after it do not run.  genKey() gives a
\* key no game has yet.
AnotherGame(g, failAt) ==
  IF g.nextGameKey # NoKey THEN Res(g, << >>, "rejected")
  ELSE IF failAt = "create" THEN Res(g, << >>, "create")
  ELSE
    LET key == Len(g.succ) + 1
        linked == [g EXCEPT !.succ = Append(@, Created(g)),
                            !.nextGameKey = key]
        copied == [linked EXCEPT !.succ[key] = WithRoster(@)]
        saved == [copied EXCEPT !.succ[key].saves = 2,
                                !.succ[key].savedPlayers = NumPlayers]
    IN IF failAt = "save" THEN Res(linked, <<Saved(key)>>, "save")
       ELSE IF failAt = "newSave"
       THEN Res(copied, <<Saved(key), Saved(NoKey)>>, "newSave")
       ELSE Res(saved,
                <<Saved(key), Saved(NoKey), Saved(key), NextGame(key)>>,
                "none")

\* String.toUpperCase on the words offered to allow.
ToUpperCase(word) ==
  CASE word = "cat" -> "CAT"
    [] word = "zzqx" -> "ZZQX"
    [] OTHER -> word

\* allow(player, word).  The promise is not returned: the command ends at
\* once and without error, whatever the dictionary does later.  addWord adds
\* the word and answers whether it was new.
Allow(g, p, word, dictUp) ==
  LET w == ToUpperCase(word) IN
  IF ~dictUp THEN Res(g, << >>, "none")
  ELSE IF ~HasWord(w)
  THEN Res([g EXCEPT !.allowed = @ \cup {w}],
           <<[type |-> "MESSAGE", to |-> NoKey, words |-> <<w>>]>>, "none")
  ELSE Res(g, <<[type |-> "MESSAGE", to |-> p, words |-> <<w>>]>>, "none")

\* Game.popTurn(): the last record is taken off the ledger and returned;
\* on an empty ledger there is none to return.
PopTurn(g) == [g |-> [g EXCEPT !.turns = SubSeq(@, 1, Len(@) - 1)],
               turn |-> LastTurn(g)]

\* dispatchCommand, UNDO: this.undo(this.popTurn()).  What undo does with the
\* record popped is in the Undo mixin; the game is left as popTurn leaves it.
Undo(g) ==
  IF g.turns = << >> THEN Res(g, << >>, "assert")
  ELSE Res(PopTurn(g).g, << >>, "none")

\* dispatchCommand, REDO: this.redo(args) puts the turn given back on the
\* ledger.
Redo(g, turn) == Res([g EXCEPT !.turns = Append(@, turn)], << >>, "none")

\* Mutant of DispatchCommand: an identifier with no case pauses the game.
DispatchUnknownPauses(g, command, player, args, dictUp) ==
  CASE command = "confirmGameOver" -> ConfirmGameOver(g, player, "GAME_OVER")
    [] command = "pause" -> Pause(g, player)
    [] command = "unpause" -> Unpause(g, player)
    [] command = "play" -> Play(g, player, args, dictUp)
    [] command = "takeBack" -> TakeBack(g, player, "TOOK_BACK")
    [] command = "undo" -> Undo(g)
    [] command = "redo" -> Redo(g, args)
    [] OTHER -> Pause(g, player)

\* dispatchCommand(command, player, args): the switch on the identifier.
DispatchCommand(g, command, player, args, dictUp) ==
  CASE command = "confirmGameOver" -> ConfirmGameOver(g, player, "GAME_OVER")
    [] command = "pause" -> Pause(g, player)
    [] command = "unpause" -> Unpause(g, player)
    [] command = "play" -> Play(g, player, args, dictUp)
    [] command = "takeBack" -> TakeBack(g, player, "TOOK_BACK")
    [] command = "undo" -> Undo(g)
    [] command = "redo" -> Redo(g, args)
    [] OTHER -> Res(g, << >>, "unrecognized")

\* ------------------------------------------------------------ initial games
\* A container of n squares holding the tiles ts on its first squares.
Pad(ts, n) == [i \in 1..n |-> IF i <= Len(ts) THEN ts[i] ELSE NoTile]

Place(letter, col) == [letter |-> letter, col |-> col]

\* The racks the players hold in a fresh game, by roster position.
FreshRack(p) ==
  CASE p % 3 = 1 -> <<TileA, TileB>>
    [] p % 3 = 2 -> <<TileA, Blank>>
    [] OTHER -> <<TileB>>

\* The words of the play a loaded game's ledger ends with.
InitWords == {<<"CAT">>, <<"ZZQX">>, <<"CAT", "CAT">>, << >>}

\* The time left to player 1 when the stored play was made.
PlayedRemaining == 20

PlayedTurn(words, replacements) ==
  [NoTurn EXCEPT !.type = "PLAYED", !.playerKey = 1, !.score = MoveScore,
                 !.placements = <<Place("A", 1)>>, !.words = words,
                 !.replacements = replacements,
                 !.remainingTime = PlayedRemaining]

\* The games the engine is handed: a fresh game, or a game loaded from
\* storage after player 1 played a tile on square 1 and player 2 is to move:
\*   "drew"  the tile A, a tile B drawn from the bag in its place, a blank
\*           being left in the bag;
\*   "wild"  as "drew", player 1 holding a blank beside the tile B drawn;
\*   "last"  player 1's last tile A, the bag being empty;
\*   "blank" a blank played as A, a tile A drawn from the bag in its place.
Layout(kind, words) ==
  LET fresh == [p \in Players |-> Pad(FreshRack(p), RackSize)]
      base == [board |-> Pad(<< >>, BoardSize), racks |-> fresh,
               bag |-> Pad(<<TileA, TileB>>, BagSize),
               score |-> [p \in Players |-> 0], turns |-> << >>,
               whosTurnKey |-> 1]
      played == [base EXCEPT !.score[1] = MoveScore, !.whosTurnKey = 2]
  IN CASE kind = "fresh" -> base
       [] kind = "drew" ->
            [played EXCEPT
               !.board = Pad(<<TileA>>, BoardSize),
               !.racks[1] = Pad(<<TileB, TileB>>, RackSize),
               !.bag = Pad(<<Blank>>, BagSize),
               !.turns = <<PlayedTurn(words, <<TileB>>)>>]
       [] kind = "wild" ->
            [played EXCEPT
               !.board = Pad(<<TileA>>, BoardSize),
               !.racks[1] = Pad(<<TileB, Blank>>, RackSize),
               !.bag = Pad(<<Blank>>, BagSize),
               !.turns = <<PlayedTurn(words, <<TileB>>)>>]
       [] kind = "last" ->
            [played EXCEPT
               !.board = Pad(<<TileA>>, BoardSize),
               !.racks[1] = Pad(<< >>, RackSize),
               !.bag = Pad(<< >>, BagSize),
               !.turns = <<PlayedTurn(words, << >>)>>]
       [] OTHER ->
            [played EXCEPT
               !.board = Pad(<<[Blank EXCEPT !.letter = "A"]>>, BoardSize),
               !.racks[1] = Pad(<<TileA, TileB>>, RackSize),
               !.bag = Pad(<<TileB>>, BagSize),
               !.turns = <<PlayedTurn(words, <<TileA>>)>>]

Layouts ==
  {Layout("fresh", << >>)}
  \cup {Layout("drew", w) : w \in InitWords}
  \cup {Layout("wild", <<"CAT">>)}
  \cup {Layout(k, w) : k \in {"last", "blank"}, w \in {<<"CAT">>, <<"ZZQX">>}}

\* The configurations.  Word checking is on, or off for one of its three
\* reasons (no dictionary, a robot, a policy other than REJECT).
Config(cp, v, tt) ==
  [challengePenalty |-> cp, dictionary |-> v[1], isRobot |-> v[2],
   wordCheck |-> v[3], timerType |-> tt, timePenalty |-> TimePenalty,
   timeAllowed |-> TimeAllowed]

\* Every penalty scheme and every timer type (none, per turn, per game), word
\* checking on.
CheckedConfigs ==
  {Config("MISS", <<TRUE, FALSE, "REJECT">>, tt) : tt \in {"NONE", "GAME"}}
  \cup {Config("PER_TURN", <<TRUE, FALSE, "REJECT">>, "TURN"),
        Config("PER_WORD", <<TRUE, FALSE, "REJECT">>, "GAME")}

\* Word checking off; only play reads these fields.
UncheckedConfigs ==
  {Config("PER_WORD", v, "NONE") :
     v \in {<<FALSE, FALSE, "REJECT">>, <<TRUE, TRUE, "REJECT">>,
            <<TRUE, FALSE, "NONE">>}}

\* The games the engine starts from.
Starts ==
  (CheckedConfigs \X Layouts)
  \cup (UncheckedConfigs \X {Layout("fresh", << >>), Layout("drew", <<"CAT">>)})

\* Tiles on the board, on the racks and in the bag.
RECURSIVE RackTiles(_)
RackTiles(p) == IF p = 0 THEN 0 ELSE Count(racks[p]) + RackTiles(p - 1)

TilesInPlay == Count(board) + RackTiles(NumPlayers) + Count(bag)

\* prePlay when the last command was no play.
NoSnap ==
  [set |-> FALSE, board |-> << >>, racks |-> << >>, score |-> << >>]

\* started when startTurn has not been called.
NoStart == [player |-> NoKey, timeout |-> NoTime, after |-> 0]

NoCommand ==
  [cmd |-> "none", p |-> NoKey, q |-> NoKey, arg |-> "", words |-> << >>,
   dictUp |-> TRUE, err |-> "none"]

Init ==
  /\ \E st \in Starts :
      LET l == st[2] IN
       /\ cfg = st[1]
       /\ board = l.board
       /\ racks = l.racks
       /\ bag = l.bag
       /\ score = l.score
       /\ turns = l.turns
       /\ whosTurnKey = l.whosTurnKey
  /\ state = "PLAYING"
  /\ missNextTurn = [p \in Players |-> FALSE]
  /\ pausedBy = NotPaused
  /\ started = NoStart
  /\ nextGameKey = NoKey
  /\ succ = << >>
  /\ allowed = {}
  /\ clockRunning = TRUE
  /\ clock = [p \in Players |->
                IF cfg.timerType = "GAME" /\ p = 2 THEN 0 - 90 ELSE 30]
  /\ last = NoCommand
  /\ notes = << >>
  /\ ncmd = 0
  /\ tilePool = TilesInPlay
  /\ held = << >>
  /\ prePlay = NoSnap
  /\ pending = << >>

\* ------------------------------------------------------------------ actions
\* The game and the command's record after a handler ended with result r.
Commit(r, c) ==
  /\ board' = r.g.board
  /\ racks' = r.g.racks
  /\ bag' = r.g.bag
  /\ score' = r.g.score
  /\ turns' = r.g.turns
  /\ whosTurnKey' = r.g.whosTurnKey
  /\ state' = r.g.state
  /\ missNextTurn' = r.g.missNextTurn
  /\ pausedBy' = r.g.pausedBy
  /\ clockRunning' = r.g.clockRunning
  /\ clock' = r.g.clock
  /\ started' = r.g.started
  /\ nextGameKey' = r.g.nextGameKey
  /\ succ' = r.g.succ
  /\ allowed' = r.g.allowed
  /\ notes' = r.notes
  /\ last' = [c EXCEPT !.err = r.err]
  /\ ncmd' = ncmd + 1
  /\ prePlay' =
       IF c.cmd = "play" /\ r.notes = << >>
          /\ r.err \notin {"DictionaryError", "NotFound"}
       THEN [set |-> TRUE, board |-> board, racks |-> racks, score |-> score]
       ELSE IF c.cmd = "takeBack" /\ last.cmd = "play" THEN prePlay
       ELSE NoSnap
  /\ UNCHANGED <<cfg, tilePool, held, pending>>

\* The moves offered to play: tiles for empty board squares, one or two words.
PlacementChoices ==
  {<<Place("A", 1)>>, <<Place("B", 2)>>, <<Place("A", 2), Place("B", 3)>>}

WordChoices == {<<"CAT">>, <<"CAT", "ZZQX">>}

\* The players who issue the commands that do not depend on who calls.
Callers == {1, 2}

DoPlay ==
  \E p \in Players, pl \in PlacementChoices, w \in WordChoices,
     dictUp \in BOOLEAN :
    /\ ncmd < MaxCommands
    /\ \A i \in 1..Len(pl) : board[pl[i].col] = NoTile
    /\ dictUp \/ (Validates /\ w = <<"CAT">> /\ Len(pl) = 2)
    /\ Commit(Play(Game, p, [placements |-> pl, words |-> w,
                             score |-> MoveScore], dictUp),
              [NoCommand EXCEPT !.cmd = "play", !.p = p, !.words = w,
                                !.dictUp = dictUp])

DoPause ==
  \E p \in Callers :
    /\ ncmd < MaxCommands
    /\ Commit(Pause(Game, p), [NoCommand EXCEPT !.cmd = "pause", !.p = p])

DoUnpause ==
  \E p \in Callers :
    /\ ncmd < MaxCommands
    /\ Commit(Unpause(Game, p),
              [NoCommand EXCEPT !.cmd = "unpause", !.p = p])

DoConfirmGameOver ==
  \E p \in {whosTurnKey}, endState \in {"", "TWO_PASSES"} :
    /\ ncmd < MaxCommands
    /\ Commit(ConfirmGameOver(Game, p, endState),
              [NoCommand EXCEPT !.cmd = "confirmGameOver", !.p = p,
                                !.arg = endState])

DoTakeBack ==
  \E p \in Players, type \in {"TOOK_BACK", "CHALLENGE_WON"} :
    /\ ncmd < MaxCommands
    /\ Commit(TakeBack(Game, p, type),
              [NoCommand EXCEPT !.cmd = "takeBack", !.p = p, !.arg = type])

DoChallenge ==
  \E challenger \in Players, challenged \in Callers, dictUp \in BOOLEAN :
    /\ ncmd < MaxCommands
    /\ dictUp \/ challenged = 1
    /\ Commit(Challenge(Game, challenger, challenged, dictUp),
              [NoCommand EXCEPT !.cmd = "challenge", !.p = challenger,
                                !.q = challenged, !.dictUp = dictUp])

Next ==
  \/ DoPlay
  \/ DoPause
  \/ DoUnpause
  \/ DoConfirmGameOver
  \/ DoTakeBack
  \/ DoChallenge

Spec == Init /\ [][Next]_vars

\* ------------------------------------------------------ container operations
\* A caller working on the containers directly: it takes tiles out of the bag
\* or a rack, holds them, and puts them into the bag or a rack.
LetterLists == {<<"A">>, <<"B">>, <<"A", "B">>, <<"B", "A">>, <<"A", "A">>}

\* The frame of a container operation.
OpFrame(c) ==
  /\ ncmd' = ncmd + 1
  /\ last' = c
  /\ notes' = << >>
  /\ prePlay' = NoSnap
  /\ UNCHANGED <<board, score, turns, whosTurnKey, state, missNextTurn,
                 pausedBy, clockRunning, clock, started, nextGameKey, succ,
                 allowed, cfg, tilePool, pending>>

\* removeTiles on the bag: the tiles returned are held by the caller; when it
\* throws, the list of the tiles removed so far is gone with the call.
OpPotRemoveTiles ==
  \E letters \in LetterLists :
    LET r == PotRemoveTiles(bag, letters) IN
    /\ ncmd < MaxCommands
    /\ held = << >>
    /\ bag' = r.c
    /\ held' = IF r.ok THEN r.tiles ELSE << >>
    /\ UNCHANGED racks
    /\ OpFrame([NoCommand EXCEPT !.cmd = "Pot.removeTiles", !.words = letters,
                     !.err = IF r.ok THEN "none" ELSE "NotFound"])

\* removeTiles on a rack.
OpWordRemoveTiles ==
  \E p \in Players, letters \in LetterLists :
    LET r == WordRemoveTiles(racks[p], letters) IN
    /\ ncmd < MaxCommands
    /\ held = << >>
    /\ racks' = [racks EXCEPT ![p] = r.c]
    /\ held' = IF r.ok THEN r.tiles ELSE << >>
    /\ UNCHANGED bag
    /\ OpFrame([NoCommand EXCEPT !.cmd = "Word.removeTiles", !.p = p,
                     !.words = letters,
                     !.err = IF r.ok THEN "none" ELSE "NotFound"])

\* addTiles on the bag, with the tiles the caller holds.
OpPotAddTiles ==
  /\ ncmd < MaxCommands
  /\ held # << >>
  /\ bag' = PotAddTiles(bag, held).c
  /\ held' = << >>
  /\ UNCHANGED racks
  /\ OpFrame([NoCommand EXCEPT !.cmd = "Pot.addTiles"])

\* addTiles on a rack, with the tiles the caller holds.
OpWordAddTiles ==
  \E p \in Players :
    /\ ncmd < MaxCommands
    /\ held # << >>
    /\ racks' = [racks EXCEPT ![p] = WordAddTiles(@, held).c]
    /\ held' = << >>
    /\ UNCHANGED bag
    /\ OpFrame([NoCommand EXCEPT !.cmd = "Word.addTiles", !.p = p])

\* shuffle on the bag.
OpPotShuffle ==
  \E perm \in {f \in [1..Count(bag) -> 1..Count(bag)] :
                 \A i, j \in 1..Count(bag) : f[i] = f[j] => i = j} :
    /\ ncmd < MaxCommands
    /\ bag' = PotShuffle(bag, perm)
    /\ UNCHANGED <<racks, held>>
    /\ OpFrame([NoCommand EXCEPT !.cmd = "Pot.shuffle"])

\* The letters a caller asks a container for; " " asks for a blank.
LetterChoices == {"A", "B", " "}

\* removeTile on the bag: the tile returned is held by the caller.
OpPotRemoveTile ==
  \E letter \in LetterChoices :
    LET r == PotRemoveTile(bag, letter) IN
    /\ ncmd < MaxCommands
    /\ held = << >>
    /\ bag' = r.c
    /\ held' = IF r.ok THEN <<r.tile>> ELSE << >>
    /\ UNCHANGED racks
    /\ OpFrame([NoCommand EXCEPT !.cmd = "Pot.removeTile",
                     !.words = <<letter>>,
                     !.err = IF r.ok THEN "none" ELSE "NotFound"])

\* removeTile on a rack.
OpWordRemoveTile ==
  \E p \in Players, letter \in LetterChoices :
    LET r == WordRemoveTile(racks[p], letter) IN
    /\ ncmd < MaxCommands
    /\ held = << >>
    /\ racks' = [racks EXCEPT ![p] = r.c]
    /\ held' = IF r.ok THEN <<r.tile>> ELSE << >>
    /\ UNCHANGED bag
    /\ OpFrame([NoCommand EXCEPT !.cmd = "Word.removeTile", !.p = p,
                     !.words = <<letter>>,
                     !.err = IF r.ok THEN "none" ELSE "NotFound"])

NextContainers ==
  \/ Next
  \/ OpPotRemoveTiles
  \/ OpWordRemoveTiles
  \/ OpPotAddTiles
  \/ OpWordAddTiles
  \/ OpPotShuffle
  \/ OpPotRemoveTile
  \/ OpWordRemoveTile

SpecContainers == Init /\ [][NextContainers]_vars

\* ---------------------------------------------- successor game and dispatch
DoAnotherGame ==
  \E failAt \in {"none", "create", "save", "newSave"} :
    /\ ncmd < MaxCommands
    /\ Commit(AnotherGame(Game, failAt),
              [NoCommand EXCEPT !.cmd = "anotherGame", !.arg = failAt])

DoAllow ==
  \E p \in Callers, word \in {"cat", "zzqx"}, dictUp \in BOOLEAN :
    /\ ncmd < MaxCommands
    /\ dictUp \/ p = 1
    /\ Commit(Allow(Game, p, word, dictUp),
              [NoCommand EXCEPT !.cmd = "allow", !.p = p, !.words = <<word>>,
                                !.dictUp = dictUp])

\* The identifiers dispatchCommand has a case for, those the engine has a
\* handler for and no case, and one that is no command at all.
CommandIds ==
  {"confirmGameOver", "pause", "unpause", "play", "takeBack", "undo", "redo",
   "challenge", "anotherGame", "allow", "bogus"}

\* The arguments sent with a command: a move with play, a turn with redo.
ArgsOf(command) ==
  CASE command = "play" ->
         [placements |-> <<Place("B", 2)>>, words |-> <<"CAT">>,
          score |-> MoveScore]
    [] command = "redo" -> PlayedTurn(<<"CAT">>, << >>)
    [] OTHER -> [placements |-> << >>, words |-> << >>, score |-> 0]

DoDispatch ==
  \E command \in CommandIds, player \in Callers :
    /\ ncmd < MaxCommands
    /\ Commit(DispatchCommand(Game, command, player, ArgsOf(command), TRUE),
              [NoCommand EXCEPT !.cmd = "dispatch", !.p = player,
                                !.arg = command])

NextEngine ==
  \/ Next
  \/ DoAnotherGame
  \/ DoAllow
  \/ DoDispatch

SpecEngine == Init /\ [][NextEngine]_vars

\* ------------------------------------------------- commands that interleave
\* The game, the command's record and the suspended challenges after a step of
\* a handler that is suspended or resumed; n is the number of commands issued.
Stepped(r, c, n, pend) ==
  /\ board' = r.g.board
  /\ racks' = r.g.racks
  /\ bag' = r.g.bag
  /\ score' = r.g.score
  /\ turns' = r.g.turns
  /\ whosTurnKey' = r.g.whosTurnKey
  /\ state' = r.g.state
  /\ missNextTurn' = r.g.missNextTurn
  /\ pausedBy' = r.g.pausedBy
  /\ clockRunning' = r.g.clockRunning
  /\ clock' = r.g.clock
  /\ started' = r.g.started
  /\ nextGameKey' = r.g.nextGameKey
  /\ succ' = r.g.succ
  /\ allowed' = r.g.allowed
  /\ notes' = r.notes
  /\ last' = [c EXCEPT !.err = r.err]
  /\ ncmd' = n
  /\ prePlay' = NoSnap
  /\ pending' = pend
  /\ UNCHANGED <<cfg, tilePool, held>>

\* The sequence s without its i-th element.
Without(s, i) == SubSeq(s, 1, i - 1) \o SubSeq(s, i + 1, Len(s))

\* challenge is called: it fails an assertion, or reads the last turn and is
\* suspended until promiseDictionary() settles.
DoChallengeBegin ==
  \E challenger \in Players, challenged \in Callers :
    LET read == ChallengeRead(Game, challenger, challenged) IN
    /\ ncmd < MaxCommands
    /\ Stepped(Res(Game, << >>, IF read.ok THEN "none" ELSE "assert"),
               [NoCommand EXCEPT !.cmd = "challenge.begin", !.p = challenger,
                                 !.q = challenged],
               ncmd + 1,
               IF read.ok THEN Append(pending, read) ELSE pending)

\* promiseDictionary() settles for one of the suspended challenges, whatever
\* ran in between: its handlers run to the end.
DoChallengeResume ==
  \E i \in 1..Len(pending), dictUp \in BOOLEAN :
    LET c == pending[i] IN
    /\ pending # << >>
    /\ dictUp \/ c.challenged = 1
    /\ Stepped(ChallengeResume(Game, c.challenger, c.challenged,
                               c.previousMove, dictUp),
               [NoCommand EXCEPT !.cmd = "challenge.resume",
                                 !.p = c.challenger, !.q = c.challenged,
                                 !.dictUp = dictUp],
               ncmd, Without(pending, i))

\* A challenge suspended on the dictionary, and the commands that run on the
\* same game meanwhile: a play, a takeBack, another challenge.
NextInterleaved ==
  \/ DoPlay
  \/ DoTakeBack
  \/ DoChallenge
  \/ DoChallengeBegin
  \/ DoChallengeResume

SpecInterleaved == Init /\ [][NextInterleaved]_vars

\* ------------------------------------------------------------------- claims
\* A step that ran the named command (every command advances ncmd).
Ran(cmd) == ncmd' = ncmd + 1 /\ last'.cmd = cmd

SomeWordUnknown(words) == \E i \in 1..Len(words) : ~HasWord(words[i])

GameUnchanged ==
  UNCHANGED <<board, racks, bag, score, turns, whosTurnKey, state,
              missNextTurn, pausedBy, clockRunning, clock, started,
              nextGameKey, succ, allowed>>

\* The ledger grew by exactly one record, of the given type.
Appended(type) ==
  /\ Len(turns') = Len(turns) + 1
  /\ SubSeq(turns', 1, Len(turns)) = turns
  /\ turns'[Len(turns')].type = type

\* C1: a play that is validated (dictionary configured and reachable, not a
\* robot, policy REJECT) and has a word the dictionary does not hold changes
\* nothing of the game (board, racks, bag, scores, ledger, turn pointer,
\* state, flags) and sends exactly one notification, a REJECT to the acting
\* player, without raising an error.
C1_RejectedPlayChangesNothing ==
  [][(Ran("play") /\ Validates /\ last'.dictUp
      /\ SomeWordUnknown(last'.words))
       => /\ GameUnchanged
          /\ last'.err = "none"
          /\ Len(notes') = 1
          /\ notes'[1].type = "REJECT"
          /\ notes'[1].to = last'.p]_vars

C1_Witness ==
  /\ last.cmd = "play" /\ Validates /\ last.dictUp
  /\ SomeWordUnknown(last.words)
  /\ Len(notes) = 1 /\ notes[1].type = "REJECT"

\* C2: after a play command has ended, normally or with an error, either
\* none of its three effects has happened (tiles moved from the rack to the
\* board, the move's score added, a PLAYED record appended) or all three.
C2_PlayAllOrNothing ==
  [][Ran("play")
       => \/ /\ board' = board /\ racks' = racks
             /\ score' = score /\ turns' = turns
          \/ /\ board' # board /\ racks'[last'.p] # racks[last'.p]
             /\ score' = [score EXCEPT ![last'.p] = @ + MoveScore]
             /\ Appended("PLAYED")]_vars

\* C3: a play that passes validation, or needs none, and whose tiles are on
\* the rack moves the tiles to the board, adds the move's score to the
\* player's score, appends one PLAYED record of that player with the move's
\* score and words, and the turn passes to the next player.
C3_AcceptedPlayIsRecorded ==
  [][(Ran("play")
      /\ ~(Validates /\ (~last'.dictUp \/ SomeWordUnknown(last'.words)))
      /\ last'.err # "NotFound")
       => /\ board' # board
          /\ score' = [score EXCEPT ![last'.p] = @ + MoveScore]
          /\ Appended("PLAYED")
          /\ turns'[Len(turns')].playerKey = last'.p
          /\ turns'[Len(turns')].score = MoveScore
          /\ turns'[Len(turns')].words = last'.words
          /\ whosTurnKey' = NextPlayer(Game)]_vars

\* The score delta a turn record holds for player p.
Delta(turn, p) ==
  CASE turn.type \in {"PLAYED", "TOOK_BACK", "CHALLENGE_WON"} ->
         IF turn.playerKey = p THEN turn.score ELSE 0
    [] turn.type = "CHALLENGE_LOST" ->
         IF turn.challengerKey = p THEN turn.score ELSE 0
    [] turn.type = "GAME_ENDED" -> turn.deltas[p].tiles + turn.deltas[p].time
    [] OTHER -> 0

RECURSIVE LedgerSum(_, _)
LedgerSum(ts, p) ==
  IF ts = << >> THEN 0 ELSE Delta(Head(ts), p) + LedgerSum(Tail(ts), p)

\* C4: every player's score is the sum of the deltas the ledger records for
\* that player (plays, take-backs, failed-challenge penalties charged to the
\* challenger, the tile and time deltas of the GAME_ENDED record).
C4_ScoreIsLedgerSum == \A p \in Players : score[p] = LedgerSum(turns, p)

\* C5: the tiles on the board, on the racks and in the bag, with those a
\* caller has taken out of a container and holds, are as many as the game was
\* created with, after any commands and container operations.
C5_TilesConserved == TilesInPlay + Len(held) = tilePool

\* C6: a takeBack that directly follows an accepted play leaves the board,
\* every rack and every score as they were before the play.
C6_TakeBackRestoresPlay ==
  (last.cmd = "takeBack" /\ prePlay.set)
    => /\ board = prePlay.board
       /\ racks = prePlay.racks
       /\ score = prePlay.score

\* The preconditions of challenge(last'.p, last'.q) hold.
ChallengeAllowed ==
  /\ last'.p # last'.q
  /\ turns # << >>
  /\ LastTurn(Game).type = "PLAYED"
  /\ LastTurn(Game).playerKey = last'.q

\* A challenge step with the dictionary reachable and every word of the
\* challenged play in it: the challenge fails.
ChallengeFails ==
  /\ Ran("challenge") /\ ChallengeAllowed /\ last'.dictUp
  /\ ~SomeWordUnknown(LastTurn(Game).words)

\* C7: with the dictionary reachable and a word of the challenged play not
\* in it, challenge leaves the game, the notifications and the outcome exactly
\* as takeBack(challenger, CHALLENGE_WON) run in the same state does; the
\* challenger's score and every missNextTurn flag are untouched, and when the
\* take-back succeeds the record appended is a CHALLENGE_WON naming the
\* challenger, with the turn pointer unchanged.
C7_ChallengeWonIsTakeBack ==
  [][(Ran("challenge") /\ ChallengeAllowed /\ last'.dictUp
      /\ SomeWordUnknown(LastTurn(Game).words))
       => LET tb == TakeBack(Game, last'.p, "CHALLENGE_WON") IN
          /\ Game' = tb.g
          /\ last'.err = tb.err
          /\ notes' = tb.notes
          /\ missNextTurn' = missNextTurn
          /\ score'[last'.p] = score[last'.p]
          /\ last'.err = "none"
               => /\ Appended("CHALLENGE_WON")
                  /\ turns'[Len(turns')].challengerKey = last'.p
                  /\ turns'[Len(turns')].score = 0 - LastTurn(Game).score
                  /\ whosTurnKey' = whosTurnKey]_vars

C7_Witness ==
  /\ last.cmd = "challenge" /\ last.dictUp /\ last.err = "none"
  /\ LastTurn(Game).type = "CHALLENGE_WON"
  /\ LastTurn(Game).challengerKey = last.p
  /\ score[last.q] = 0

\* C8: a failed challenge under PER_TURN costs the challenger exactly
\* PenaltyPoints and under PER_WORD exactly PenaltyPoints times the number of
\* words of the challenged play; no other score changes, and the
\* CHALLENGE_LOST record appended carries the negative amount as its score.
C8_PointsPenalty ==
  [][(ChallengeFails /\ cfg.challengePenalty \in {"PER_TURN", "PER_WORD"})
       => LET n == IF cfg.challengePenalty = "PER_TURN" THEN PenaltyPoints
                   ELSE PenaltyPoints * Len(LastTurn(Game).words) IN
          /\ score' = [score EXCEPT ![last'.p] = @ - n]
          /\ Appended("CHALLENGE_LOST")
          /\ turns'[Len(turns')].score = 0 - n]_vars

C8_Witness ==
  /\ last.cmd = "challenge" /\ cfg.challengePenalty = "PER_WORD"
  /\ LastTurn(Game).type = "CHALLENGE_LOST"
  /\ LastTurn(Game).score = 0 - 2 * PenaltyPoints
  /\ score[last.p] = 0 - 2 * PenaltyPoints

\* C9: a failed challenge under PER_TURN or PER_WORD, or under MISS by a
\* challenger who does not hold the turn, appends exactly one CHALLENGE_LOST
\* record and leaves the turn pointer, the board, the racks and the bag as
\* they were.
C9_FailedChallengeKeepsTurn ==
  [][(ChallengeFails
      /\ (cfg.challengePenalty \in {"PER_TURN", "PER_WORD"}
          \/ (cfg.challengePenalty = "MISS" /\ last'.p # whosTurnKey)))
       => /\ Appended("CHALLENGE_LOST")
          /\ whosTurnKey' = whosTurnKey
          /\ board' = board /\ racks' = racks /\ bag' = bag]_vars

C9_Witness ==
  /\ last.cmd = "challenge" /\ cfg.challengePenalty = "MISS"
  /\ LastTurn(Game).type = "CHALLENGE_LOST"
  /\ LastTurn(Game).penalty = ""
  /\ last.p # whosTurnKey

\* C10: a failed challenge under MISS by the player who holds the turn, the
\* challenged play not being the game's last (it drew replacements, or the
\* challenged rack is not empty), appends exactly one CHALLENGE_LOST record
\* with penalty MISS and the challenger's key, changes no score, and moves the
\* turn from the challenger to the next player in roster order.
C10_MissedTurnAdvances ==
  [][(ChallengeFails /\ cfg.challengePenalty = "MISS"
      /\ last'.p = whosTurnKey
      /\ ~(LastTurn(Game).replacements = << >> /\ IsEmpty(racks[last'.q])))
       => /\ Appended("CHALLENGE_LOST")
          /\ turns'[Len(turns')].penalty = "MISS"
          /\ turns'[Len(turns')].challengerKey = last'.p
          /\ score' = score
          /\ whosTurnKey' = (last'.p % NumPlayers) + 1]_vars

C10_Witness ==
  /\ last.cmd = "challenge" /\ cfg.challengePenalty = "MISS"
  /\ LastTurn(Game).type = "CHALLENGE_LOST"
  /\ LastTurn(Game).penalty = "MISS"
  /\ LastTurn(Game).challengerKey = last.p
  /\ whosTurnKey = (last.p % NumPlayers) + 1

\* The total point value of the racks of the players in S (an empty rack is
\* worth nothing).
RECURSIVE Forfeited(_)
Forfeited(S) ==
  IF S = {} THEN 0
  ELSE LET p == CHOOSE x \in S : TRUE IN
       RackScore(racks[p]) + Forfeited(S \ {p})

\* The players whose rack is empty.
EmptyRacks == {p \in Players : IsEmpty(racks[p])}

\* A failed challenge under MISS by the player who holds the turn, of a play
\* that drew no replacement and left the challenged player's rack empty.
LastPlayChallenged ==
  /\ ChallengeFails /\ cfg.challengePenalty = "MISS"
  /\ last'.p = whosTurnKey
  /\ LastTurn(Game).replacements = << >>
  /\ IsEmpty(racks[last'.q])

C12_MissNextTurnFlag ==
  [][/\ (ChallengeFails /\ cfg.challengePenalty = "MISS"
         /\ last'.p # whosTurnKey)
          => /\ missNextTurn' = [missNextTurn EXCEPT ![last'.p] = TRUE]
             /\ score' = score
             /\ turns'[Len(turns')].score = 0
     /\ cfg.challengePenalty \in {"PER_TURN", "PER_WORD"}
          => missNextTurn' = missNextTurn]_vars

C12_Witness ==
  /\ last.cmd = "challenge" /\ cfg.challengePenalty = "MISS"
  /\ last.p # whosTurnKey
  /\ missNextTurn = [p \in Players |-> p = last.p]
  /\ LastTurn(Game).type = "CHALLENGE_LOST"
  /\ LastTurn(Game).score = 0
  /\ score[last.p] = 0

\* C13: when the dictionary is unavailable, challenge leaves the game and the
\* outcome exactly as takeBack(challenger, CHALLENGE_WON) run in the same
\* state does: when that take-back succeeds the command ends without error,
\* exactly one CHALLENGE_WON record is appended, and neither the challenger's
\* score nor any missNextTurn flag changes, whatever the number of words of
\* the challenged play.
C13_UnavailableDictionaryWins ==
  [][(Ran("challenge") /\ ChallengeAllowed /\ ~last'.dictUp)
       => LET tb == TakeBack(Game, last'.p, "CHALLENGE_WON") IN
          /\ Game' = tb.g
          /\ last'.err = tb.err
          /\ missNextTurn' = missNextTurn
          /\ score'[last'.p] = score[last'.p]
          /\ tb.err = "none"
               => /\ Appended("CHALLENGE_WON")
                  /\ turns'[Len(turns')].challengerKey = last'.p]_vars

\* C14: confirmGameOver on a game whose state is not PLAYING changes nothing
\* of the game and ends without error; in particular a confirmGameOver that
\* directly follows a confirmGameOver changes no score, appends no record and
\* leaves the state as the first call set it.
C14_ConfirmGameOverOnce ==
  [][/\ (Ran("confirmGameOver") /\ state # "PLAYING")
          => GameUnchanged /\ last'.err = "none" /\ notes' = << >>
     /\ (Ran("confirmGameOver") /\ last.cmd = "confirmGameOver")
          => /\ state # "PLAYING"
             /\ score' = score /\ turns' = turns /\ state' = state]_vars

C14_Witness ==
  /\ last.cmd = "confirmGameOver" /\ last.arg = "" /\ ncmd = 2
  /\ state = "TWO_PASSES"
  /\ Len(turns) <= 2
  /\ LastTurn(Game).type = "GAME_ENDED"
  /\ LastTurn(Game).endState = "TWO_PASSES"

\* C15: confirmGameOver on a PLAYING game ends with an assertion error, and
\* appends no record, exactly when two or more players have an empty rack,
\* whichever players they are; with at most one empty rack it ends without
\* error and appends the GAME_ENDED record.
C15_TwoEmptyRacksFatal ==
  [][(Ran("confirmGameOver") /\ state = "PLAYING")
       => IF Cardinality(EmptyRacks) >= 2
          THEN last'.err = "assert" /\ turns' = turns
          ELSE last'.err = "none" /\ Appended("GAME_ENDED")]_vars

C15_Witness ==
  /\ last.cmd = "confirmGameOver" /\ last.err = "assert"
  /\ EmptyRacks = {1, 3}
  /\ LastTurn(Game).type # "GAME_ENDED"

\* The sum of the tile deltas of a GAME_ENDED record.
RECURSIVE TileDeltaSum(_)
TileDeltaSum(ds) ==
  IF ds = << >> THEN 0 ELSE Head(ds).tiles + TileDeltaSum(Tail(ds))

\* C16: in a step that appends the GAME_ENDED record, every player with a
\* non-empty rack loses exactly the point value of that rack, recorded as the
\* player's tile delta, and the player with the empty rack, if there is one,
\* gains exactly the sum of those values, recorded likewise; with one empty
\* rack the tile deltas sum to zero, with none no score increases.
C16_SettlementAmounts ==
  [][(Len(turns') = Len(turns) + 1
      /\ turns'[Len(turns')].type = "GAME_ENDED")
       => LET d == turns'[Len(turns')].deltas IN
          /\ Len(d) = NumPlayers
          /\ \A p \in Players \ EmptyRacks :
               /\ score'[p] = score[p] - RackScore(racks[p])
               /\ d[p].tiles = 0 - RackScore(racks[p])
          /\ \A p \in EmptyRacks :
               /\ score'[p] = score[p] + Forfeited(Players)
               /\ d[p].tiles = Forfeited(Players)
          /\ EmptyRacks # {} => TileDeltaSum(d) = 0
          /\ EmptyRacks = {} => \A p \in Players : score'[p] <= score[p]]_vars

C16_Witness ==
  /\ last.cmd = "confirmGameOver" /\ last.err = "none"
  /\ LastTurn(Game).type = "GAME_ENDED"
  /\ EmptyRacks = {1}
  /\ LastTurn(Game).deltas[1].tiles = Forfeited(Players)
  /\ Forfeited(Players) > 0
  /\ score[1] = MoveScore + Forfeited(Players)

\* round(c * timePenalty / 60), halves rounded up: the integer n with
\* n - 1/2 <= c * timePenalty / 60 < n + 1/2.
Rounded(c) ==
  CHOOSE n \in (0 - 2 * TimePenalty)..TimePenalty :
    60 * n - 30 <= c * cfg.timePenalty /\ c * cfg.timePenalty < 60 * n + 30

\* The time penalty due to player p at settlement: negative or 0.
TimeDue(p) ==
  IF cfg.timerType = "GAME" /\ clock[p] < 0 /\ Rounded(clock[p]) < 0
  THEN Rounded(clock[p]) ELSE 0

\* C17: in a step that appends the GAME_ENDED record, under a per-game timer
\* a player whose clock is negative has round(clock * timePenalty / 60)
\* points, when that is negative, recorded as the time delta and added to the
\* score along with the tile delta; every other player, and every player
\* under another timer type, has a time delta of 0 and a score changed by the
\* tile delta alone.
C17_TimePenaltyApplied ==
  [][(Len(turns') = Len(turns) + 1
      /\ turns'[Len(turns')].type = "GAME_ENDED")
       => LET d == turns'[Len(turns')].deltas IN
          \A p \in Players :
            /\ d[p].time = TimeDue(p)
            /\ score'[p] = score[p] + d[p].tiles + TimeDue(p)]_vars

\* The part of C17 about the record alone: the time delta recorded is the
\* penalty due.
C17_TimePenaltyRecorded ==
  [][(Len(turns') = Len(turns) + 1
      /\ turns'[Len(turns')].type = "GAME_ENDED")
       => \A p \in Players :
            turns'[Len(turns')].deltas[p].time = TimeDue(p)]_vars

\* C18: a challenge whose challenger is the challenged player, or run on an
\* empty ledger, or on a ledger whose last record is not PLAYED, or naming a
\* challenged player who did not make the last play, and a takeBack run on an
\* empty ledger or on a ledger whose last record is not PLAYED, end with an
\* assertion error and change nothing of the game, whether or not the
\* dictionary is reachable.
C18_PreconditionsAreFatal ==
  [][/\ (Ran("challenge") /\ ~ChallengeAllowed)
          => last'.err = "assert" /\ GameUnchanged /\ notes' = << >>
     /\ (Ran("takeBack")
         /\ (turns = << >> \/ turns[Len(turns)].type # "PLAYED"))
          => last'.err = "assert" /\ GameUnchanged /\ notes' = << >>]_vars

C18_Witness ==
  /\ last.cmd = "challenge" /\ last.err = "assert"
  /\ last.p = last.q
  /\ LastTurn(Game).type = "PLAYED"
  /\ LastTurn(Game).playerKey = last.q

\* The tiles there are, each as it is when on no board square.
TileKinds == {TileA, TileB, Blank}

\* How many squares of container c hold tile t.
Holds(c, t) == Cardinality({i \in 1..Len(c) : c[i] = t})

\* How many of the placements lift tile t off the board.
Lifted(placements, t) ==
  Cardinality({i \in 1..Len(placements) :
                 Reset(board[placements[i].col]) = t})

\* C19: a takeBack that ends without error, m being the PLAYED record it
\* undoes and o the player who made that play: the squares of m's placements
\* are empty and the rest of the board is as it was; o's rack has lost m's
\* replacement tiles and gained the tiles lifted off the board, the bag has
\* gained the replacement tiles, every other rack (the caller's too) is as it
\* was; o's score is lower by m's score and no other score changes; one record
\* is appended, of the requested type, for player o, with the negated score,
\* m's placements and replacements, and the caller as challengerKey exactly
\* when the type is CHALLENGE_WON.
C19_TakeBackEffects ==
  [][(Ran("takeBack") /\ last'.err = "none")
       => LET m == LastTurn(Game)
              o == m.playerKey
              t == turns'[Len(turns')]
          IN /\ m.type = "PLAYED"
             /\ \A i \in 1..BoardSize :
                  board'[i] =
                    IF \E j \in 1..Len(m.placements) :
                         m.placements[j].col = i
                    THEN NoTile ELSE board[i]
             /\ \A k \in TileKinds :
                  /\ Holds(racks'[o], k) =
                       Holds(racks[o], k) - Holds(m.replacements, k)
                         + Lifted(m.placements, k)
                  /\ Holds(bag', k) = Holds(bag, k) + Holds(m.replacements, k)
             /\ \A p \in Players \ {o} : racks'[p] = racks[p]
             /\ score' = [score EXCEPT ![o] = @ - m.score]
             /\ Appended(last'.arg)
             /\ t.playerKey = o
             /\ t.score = 0 - m.score
             /\ t.placements = m.placements
             /\ t.replacements = m.replacements
             /\ t.challengerKey =
                  IF last'.arg = "CHALLENGE_WON" THEN last'.p ELSE NoKey]_vars

C19_Witness ==
  /\ last.cmd = "takeBack" /\ last.err = "none" /\ last.arg = "TOOK_BACK"
  /\ LastTurn(Game).type = "TOOK_BACK"
  /\ LastTurn(Game).playerKey # last.p
  /\ LastTurn(Game).replacements # << >>
  /\ IsEmpty(board)
  /\ Holds(racks[LastTurn(Game).playerKey], Blank) = 1
  /\ score[LastTurn(Game).playerKey] = 0

\* C20: after a takeBack of type CHALLENGE_WON that ended without error the
\* turn pointer is where it was, the record appended names that player as
\* nextToGoKey, and under a per-turn timer that player's clock is back at the
\* time allowed for a turn.
C20_ChallengeWonKeepsTurn ==
  [][(Ran("takeBack") /\ last'.arg = "CHALLENGE_WON" /\ last'.err = "none")
       => /\ whosTurnKey' = whosTurnKey
          /\ turns'[Len(turns')].nextToGoKey = whosTurnKey
          /\ cfg.timerType = "TURN"
               => clock'[whosTurnKey] = cfg.timeAllowed]_vars

\* The part of C20 about the turn pointer alone.
C20_PointerUnchanged ==
  [][(Ran("takeBack") /\ last'.arg = "CHALLENGE_WON" /\ last'.err = "none")
       => /\ whosTurnKey' = whosTurnKey
          /\ turns'[Len(turns')].nextToGoKey = whosTurnKey]_vars

\* C21: a takeBack of type TOOK_BACK that ends without error appends the
\* TOOK_BACK record and then starts the turn of the player who took the move
\* back: the turn pointer names that player, startTurn was called for that
\* player with the remaining time recorded on the move taken back, on a ledger
\* that already held the inverse record, and under a per-turn timer the
\* player's clock shows that remaining time and not the full time allowed.
C21_TookBackResumesTurn ==
  [][(Ran("takeBack") /\ last'.arg = "TOOK_BACK" /\ last'.err = "none")
       => LET m == LastTurn(Game) IN
          /\ Appended("TOOK_BACK")
          /\ whosTurnKey' = last'.p
          /\ started' = [player |-> last'.p, timeout |-> m.remainingTime,
                         after |-> Len(turns) + 1]
          /\ cfg.timerType = "TURN"
               => /\ clock'[last'.p] = m.remainingTime
                  /\ clock'[last'.p] # cfg.timeAllowed]_vars

C21_Witness ==
  /\ last.cmd = "takeBack" /\ last.arg = "TOOK_BACK" /\ last.err = "none"
  /\ last.p = 3 /\ whosTurnKey = 3
  /\ cfg.timerType = "TURN"
  /\ clock[3] = PlayedRemaining
  /\ started.player = 3 /\ started.after = Len(turns)
  /\ LastTurn(Game).type = "TOOK_BACK"

\* C22: in every step the ledger before the step is a prefix of the ledger
\* after it: no record is removed or altered, whichever command ran and
\* whether it was called directly or routed by dispatchCommand.
C22_LedgerAppendOnly ==
  [][/\ Len(turns') >= Len(turns)
     /\ SubSeq(turns', 1, Len(turns)) = turns]_vars

\* The part of C22 about the handlers called directly: takeBack and
\* challenge append the inverse record and leave the PLAYED record in place.
C22_HandlersAppendOnly ==
  [][last'.cmd # "dispatch"
       => /\ Len(turns') >= Len(turns)
          /\ SubSeq(turns', 1, Len(turns)) = turns]_vars

\* The notifications of the given type among the entries of ns.
Sent(ns, type) == SelectSeq(ns, LAMBDA n : n.type = type)

\* The game is paused: a pause has run and no unpause after it.
Paused == pausedBy # NotPaused

\* C23: pause on a paused game and unpause on a game that is not paused
\* change nothing (the marker keeps the first pauser's name, the clock is not
\* touched) and send and save nothing; pause on a game that is not paused
\* sets the marker to the caller's name, stops the clock, sends one PAUSE and
\* saves once; unpause on a paused game clears the marker, starts the clock,
\* sends one UNPAUSE and saves once; for every player, whatever the name.
C23_PauseIdempotent ==
  [][/\ (Ran("pause") /\ Paused)
          => GameUnchanged /\ notes' = << >>
     /\ (Ran("unpause") /\ ~Paused)
          => GameUnchanged /\ notes' = << >>
     /\ (Ran("pause") /\ ~Paused)
          => /\ pausedBy' = Name(last'.p) /\ ~clockRunning'
             /\ Len(Sent(notes', "PAUSE")) = 1
             /\ Len(Sent(notes', "SAVE")) = 1
     /\ (Ran("unpause") /\ Paused)
          => /\ pausedBy' = NotPaused /\ clockRunning'
             /\ Len(Sent(notes', "UNPAUSE")) = 1
             /\ Len(Sent(notes', "SAVE")) = 1]_vars

\* The part of C23 that holds: the same, for pauses by players whose name is
\* not the empty string.
C23_NamedPauseIdempotent ==
  [][(pausedBy # "" /\ (Ran("pause") => Name(last'.p) # ""))
       => /\ (Ran("pause") /\ Paused)
               => GameUnchanged /\ notes' = << >>
          /\ (Ran("unpause") /\ ~Paused)
               => GameUnchanged /\ notes' = << >>
          /\ (Ran("pause") /\ ~Paused)
               => /\ pausedBy' = Name(last'.p) /\ ~clockRunning'
                  /\ Len(Sent(notes', "PAUSE")) = 1
                  /\ Len(Sent(notes', "SAVE")) = 1
          /\ (Ran("unpause") /\ Paused)
               => /\ pausedBy' = NotPaused /\ clockRunning'
                  /\ Len(Sent(notes', "UNPAUSE")) = 1
                  /\ Len(Sent(notes', "SAVE")) = 1]_vars

\* C24: anotherGame on a game whose nextGameKey is set fails, creates and
\* saves no game, sends nothing, and leaves nextGameKey and everything else
\* of the game as they were; in particular a second anotherGame after a first
\* that completed leaves the one successor the first created.
C24_OneSuccessor ==
  [][(Ran("anotherGame") /\ nextGameKey # NoKey)
       => /\ last'.err = "rejected"
          /\ GameUnchanged
          /\ notes' = << >>
          /\ Len(succ') = 1 /\ nextGameKey' = 1]_vars

C24_Witness ==
  /\ last.cmd = "anotherGame" /\ last.err = "rejected" /\ ncmd = 2
  /\ nextGameKey = 1 /\ Len(succ) = 1
  /\ succ[1].savedPlayers = NumPlayers
  /\ notes = << >>

\* C25: an anotherGame that runs on a game with no successor and completes
\* saves the successor, copies the roster (no turn, state WAITING, no turn
\* pointer), saves the successor again, and only then links and saves this
\* game, and last sends NEXT_GAME; whenever this game is linked after the
\* call, the successor last saved has its players; and when a step before
\* the link fails (the creation or a save of the successor), nextGameKey
\* stays unset.
C25_LinkAfterSuccessorReady ==
  [][(Ran("anotherGame") /\ nextGameKey = NoKey)
       => LET key == Len(succ) + 1 IN
          /\ last'.err = "none"
               => /\ notes' = <<Saved(key), Saved(key), Saved(NoKey),
                                NextGame(key)>>
                  /\ nextGameKey' = key
                  /\ succ'[key].players = NumPlayers
                  /\ succ'[key].turns = << >>
                  /\ succ'[key].state = "WAITING"
                  /\ succ'[key].whosTurnKey = NoKey
          /\ nextGameKey' # NoKey
               => succ'[nextGameKey'].savedPlayers = NumPlayers
          /\ last'.err \in {"create", "newSave"}
               => nextGameKey' = NoKey]_vars

\* The part of C25 about the result of a call that completes: the successor
\* has the roster with reset fields and was saved with it, this game is
\* linked to it, and NEXT_GAME is the last thing sent.
C25_SuccessorWhenComplete ==
  [][(Ran("anotherGame") /\ nextGameKey = NoKey /\ last'.err = "none")
       => LET key == Len(succ) + 1 IN
          /\ nextGameKey' = key
          /\ succ'[key] = [players |-> NumPlayers, state |-> "WAITING",
                           turns |-> << >>, whosTurnKey |-> NoKey,
                           saves |-> 2, savedPlayers |-> NumPlayers]
          /\ notes'[Len(notes')] = NextGame(key)]_vars

\* The identifiers of the commands the engine accepts.
Accepted ==
  {"play", "challenge", "takeBack", "pause", "unpause", "confirmGameOver",
   "anotherGame", "allow"}

\* C26: dispatchCommand with an identifier that is neither a command the
\* engine accepts nor undo or redo ends with the unrecognized-command error
\* and changes nothing of the game: no tile, score, ledger, pause marker or
\* turn pointer changes and nothing is sent.
C26_UnknownCommandFatal ==
  [][(Ran("dispatch") /\ last'.arg \notin Accepted \cup {"undo", "redo"})
       => /\ last'.err = "unrecognized"
          /\ GameUnchanged
          /\ notes' = << >>]_vars

C26_Witness ==
  /\ last.cmd = "dispatch" /\ last.arg = "bogus"
  /\ last.err = "unrecognized"
  /\ notes = << >>

\* What the handler of an accepted command returns when called directly with
\* the player and the arguments dispatchCommand was given.
Handled(command, player) ==
  CASE command = "play" -> Play(Game, player, ArgsOf("play"), TRUE)
    [] command = "challenge" ->
         Challenge(Game, player, LastTurn(Game).playerKey, TRUE)
    [] command = "takeBack" -> TakeBack(Game, player, "TOOK_BACK")
    [] command = "pause" -> Pause(Game, player)
    [] command = "unpause" -> Unpause(Game, player)
    [] command = "confirmGameOver" ->
         ConfirmGameOver(Game, player, "GAME_OVER")
    [] command = "anotherGame" -> AnotherGame(Game, "none")
    [] OTHER -> Allow(Game, player, "cat", TRUE)

\* C27: dispatchCommand with the identifier of an accepted command (play,
\* challenge, takeBack, pause, unpause, confirmGameOver, anotherGame, allow)
\* does not end with the unrecognized-command error and leaves the game, the
\* notifications and the outcome as the command's handler does.
C27_DispatchRoutesAll ==
  [][(Ran("dispatch") /\ last'.arg \in Accepted)
       => LET r == Handled(last'.arg, last'.p) IN
          /\ last'.err # "unrecognized"
          /\ Game' = r.g
          /\ notes' = r.notes
          /\ last'.err = r.err]_vars

\* The part of C27 about the identifiers dispatchCommand has a case for.
C27_DispatchRoutesCases ==
  [][(Ran("dispatch")
      /\ last'.arg \in {"play", "takeBack", "pause", "unpause",
                        "confirmGameOver"})
       => LET r == Handled(last'.arg, last'.p) IN
          /\ last'.err # "unrecognized"
          /\ Game' = r.g
          /\ notes' = r.notes
          /\ last'.err = r.err]_vars

\* The squares of container c holding a tile whose letter is the one given.
WithLetter(c, letter) ==
  {i \in 1..Len(c) : c[i] # NoTile /\ c[i].letter = letter}

\* The squares of container c holding a blank tile.
WithBlank(c) == {i \in 1..Len(c) : c[i] # NoTile /\ c[i].isBlank}

Answers(tile, L, rack) ==
  tile # NoTile /\ (tile.letter = L \/ (rack /\ tile.isBlank))

\* The squares emptied between container c and its later value d.
Gone(c, d) == {i \in 1..Len(c) : c[i] # NoTile /\ d[i] = NoTile}

\* removeTiles(letters) took container c to d, the caller receiving tiles
\* (<< >> on a failure): the squares not emptied are as they were; the first
\* k requests were each answered by one emptied square, in list order; on a
\* failure k is short of the list and nothing left in d answers request k + 1;
\* on success k is the length of the list and tiles[j] is the tile that
\* answered request j.
Sequentially(c, d, letters, tiles, failed, rack) ==
  /\ \A i \in 1..Len(c) : i \notin Gone(c, d) => d[i] = c[i]
  /\ \E k \in 0..Len(letters) :
       /\ failed <=> k < Len(letters)
       /\ Cardinality(Gone(c, d)) = k
       /\ \E f \in [1..k -> Gone(c, d)] :
            /\ \A i, j \in 1..k : f[i] = f[j] => i = j
            /\ \A j \in 1..k : Answers(c[f[j]], letters[j], rack)
            /\ ~failed =>
                 /\ Len(tiles) = k
                 /\ \A j \in 1..k :
                      tiles[j] = IF rack
                                 THEN [c[f[j]] EXCEPT !.letter = letters[j]]
                                 ELSE Reset(c[f[j]])
       /\ failed =>
            /\ tiles = << >>
            /\ \A i \in 1..Len(d) : ~Answers(d[i], letters[k + 1], rack)

\* C29: removeTiles takes the requested tiles one at a time in list order and
\* fails with NotFound at the first request nothing answers; after a failure
\* exactly the tiles that answered the earlier requests are gone and every
\* other square is unchanged; on success one tile per request is returned, in
\* the order of the requests.
C29_RemoveTilesSequential ==
  [][/\ Ran("Pot.removeTiles")
          => Sequentially(bag, bag', last'.words, held',
                          last'.err = "NotFound", FALSE)
     /\ Ran("Word.removeTiles")
          => Sequentially(racks[last'.p], racks'[last'.p], last'.words, held',
                          last'.err = "NotFound", TRUE)]_vars

C29_Witness ==
  /\ ncmd = 1
  /\ last.cmd = "Pot.removeTiles" /\ last.err = "NotFound"
  /\ last.words = <<"A", "A">>
  /\ Tiles(bag) = <<TileB>>
  /\ held = << >>

\* C30: every blank tile in the bag carries no assigned letter: a blank that
\* was given a letter by a wildcard match and later put back into the bag is
\* unassigned again while it is there.
C30_BagBlanksUnassigned ==
  \A i \in 1..Len(bag) :
    (bag[i] # NoTile /\ bag[i].isBlank) => bag[i].letter = " "

\* The ended states of a game.
EndedStates ==
  {"GAME_OVER", "TWO_PASSES", "CHALLENGE_LOST_GAME_OVER", "FAILED_CHALLENGE"}

\* C31: the ended states are terminal: a command (play, takeBack, challenge,
\* pause, unpause, confirmGameOver) run on a game whose state is an ended one
\* leaves the state, every score, every rack, the board and the ledger as
\* they were, and does not start a stopped clock.
C31_EndedIsTerminal ==
  [][(state \in EndedStates /\ ncmd' = ncmd + 1
        /\ last'.cmd \in {"play", "takeBack", "challenge", "pause", "unpause",
                          "confirmGameOver"})
       => /\ state' = state
          /\ score' = score
          /\ racks' = racks
          /\ board' = board
          /\ turns' = turns
          /\ clockRunning' => clockRunning]_vars

\* The suspended challenges a step resumed: those whose removal from pending
\* gives pending' and whose players are the ones the step names.
ResumedNow ==
  IF last'.cmd # "challenge.resume" \/ Len(pending') # Len(pending) - 1
  THEN {}
  ELSE {c \in {pending[i] : i \in 1..Len(pending)} :
          /\ c.challenger = last'.p /\ c.challenged = last'.q
          /\ \E i \in 1..Len(pending) :
               pending[i] = c /\ pending' = Without(pending, i)}

\* The turn challenge c read is still the last turn of the ledger.
StillLast(c) == Len(turns) = c.at /\ turns[c.at] = c.previousMove

\* The step took the last play back as a successful challenge.
TookBackNow ==
  /\ Len(turns') = Len(turns) + 1
  /\ turns'[Len(turns')].type = "CHALLENGE_WON"

\* The step charged a failed challenge: a CHALLENGE_LOST record, a score or a
\* miss-a-turn flag changed, or the game ended.
ChargedNow ==
  \/ Len(turns') = Len(turns) + 1
       /\ turns'[Len(turns')].type \in {"CHALLENGE_LOST", "GAME_ENDED"}
  \/ missNextTurn' # missNextTurn
  \/ state' # state

\* C32: whatever ran while a challenge was suspended awaiting the dictionary,
\* when it resumes it takes a turn back only if the turn it read before
\* suspending is still the last one (so never another turn, and never a play
\* already taken back), and it charges the challenger (penalty record, points,
\* miss-a-turn flag, end of the game) only if that turn is still the last one.
C32_ChallengeActsOnWhatItRead ==
  [][\A c \in ResumedNow : (TookBackNow \/ ChargedNow) => StillLast(c)]_vars

\* For C32: the part on taking back holds, since takeBack reads the last turn
\* again and asserts it is a PLAYED one.
C32_TakesBackWhatItRead ==
  [][\A c \in ResumedNow : TookBackNow => StillLast(c)]_vars

=============================================================================
